---- MODULE Spec2Model ----
(***************************************************************************)
(* Model of rustls/src/verify.rs: certificate-chain, signature and SCT     *)
(* verification, the proof tokens, and the runtime-switchable client       *)
(* verifier (SafeDefaultClientVerifier) with its reader/writer lock.       *)
(***************************************************************************)
EXTENDS Integers, Sequences, FiniteSets, TLC

(***************************************************************************)
(* Bounds of the model.                                                    *)
(***************************************************************************)
\* Largest number of trust anchors the callers ever submit to one store.
MaxRoots == 2
\* Largest number of proof tokens a caller keeps before it uses them up.
MaxHeld == 2

(***************************************************************************)
(* Input domains.                                                          *)
(***************************************************************************)
\* Threads sharing one Arc<SafeDefaultClientVerifier>.
Threads == {1, 2, 3}

\* Trust anchors that parse; Malformed is a DER blob that does not parse.
Anchors == {1, 2}
Malformed == 0
DerCerts == Anchors \cup {Malformed}

\* Lists handed to add_server_trust_anchors and batch_add_certificates.
AnchorLists == {<<>>, <<1>>, <<2, 1>>}
DerLists == {<<>>, <<Malformed>>, <<1, Malformed>>, <<Malformed, 2>>}

VARIABLES
    mode,         \* SafeDefaultClientVerifier.mode: the value behind the RwLock
    lockWriter,   \* the thread holding the write guard, 0 when none
    lockReaders,  \* the threads holding a read guard
    lockQueue,    \* threads parked on the lock, in arrival order
    pc,           \* per thread: idle, wait, locked, verifying, done
    op,           \* per thread: the operation it is in
    arg,          \* per thread: the operation's arguments
    ret,          \* per thread: the value the operation returns
    before,       \* per thread: the mode its operation found when it read it
    mutated,      \* whether any write operation has run since new()
    excursion,    \* anchors dropped by the latest switch to anonymous, -1 when none
    offered       \* per thread: its caller's latest offer_client_auth() returned true

clientVars == <<mode, lockWriter, lockReaders, lockQueue, pc, op, arg, ret,
                before, mutated, excursion, offered>>

VARIABLES
    wpv,          \* the WebPkiVerifier: its roots and ct_logs
    hs,           \* the verify_server_cert call in progress
    last,         \* the verification call that just returned: function, inputs, result
    held          \* the proof tokens the caller holds, each with where it came from

serverVars == <<wpv, hs, last, held>>

vars == <<clientVars, serverVars>>

(***************************************************************************)
(* Time.  A SystemTime is a point before the epoch or a count of seconds   *)
(* since it.  Seconds are u64 (Duration::as_secs).  They are written as    *)
(* four limbs in base 10^6, most significant first, so that the 64-bit     *)
(* range is kept exactly.                                                  *)
(***************************************************************************)
LimbBase == 1000 * 1000

\* u64::MAX = 18,446,744,073,709,551,615
U64Max == <<18, 446744, 73709, 551615>>

Limbs(a, b, c, d) == <<a, b, c, d>>

\* a <= b on limb sequences of equal length
RECURSIVE LimbLeq(_, _)
LimbLeq(a, b) ==
    IF Len(a) = 0 THEN TRUE
    ELSE IF Head(a) # Head(b) THEN Head(a) < Head(b)
    ELSE LimbLeq(Tail(a), Tail(b))

SystemTime(is_before, secs) == [before_epoch |-> is_before, secs |-> secs]

TBeforeEpoch == SystemTime(TRUE, Limbs(0, 0, 0, 1))
TEpoch == SystemTime(FALSE, Limbs(0, 0, 0, 0))
TNow == SystemTime(FALSE, Limbs(0, 0, 1700, 0))
TLater == SystemTime(FALSE, Limbs(0, 0, 1900, 0))
\* floor(u64::MAX / 1000) and its successor
TMaxMillis == SystemTime(FALSE, Limbs(0, 18446, 744073, 709551))
TOverflow == SystemTime(FALSE, Limbs(0, 18446, 744073, 709552))

Times == {TBeforeEpoch, TEpoch, TNow, TLater, TMaxMillis, TOverflow}

\* webpki::Time::try_from(SystemTime): seconds since the epoch, or an error
\* when the time lies before it.
webpki_Time_try_from(now) ==
    IF now.before_epoch THEN [ok |-> FALSE, secs |-> Limbs(0, 0, 0, 0)]
    ELSE [ok |-> TRUE, secs |-> now.secs]

\* Mutant of checked_mul_1000: the product is returned unchecked.
checked_mul_1000_unchecked(secs) ==
    LET p0 == secs[4] * 1000
        p1 == secs[3] * 1000 + (p0 \div LimbBase)
        p2 == secs[2] * 1000 + (p1 \div LimbBase)
        p3 == secs[1] * 1000 + (p2 \div LimbBase)
    IN  [some |-> TRUE,
         val |-> Limbs(p3 % LimbBase, p2 % LimbBase, p1 % LimbBase, p0 % LimbBase)]

\* u64::checked_mul(secs, 1000): None when the product exceeds u64::MAX.
checked_mul_1000(secs) ==
    LET p0 == secs[4] * 1000
        p1 == secs[3] * 1000 + (p0 \div LimbBase)
        p2 == secs[2] * 1000 + (p1 \div LimbBase)
        p3 == secs[1] * 1000 + (p2 \div LimbBase)
        prod == Limbs(p3 % LimbBase, p2 % LimbBase, p1 % LimbBase, p0 % LimbBase)
    IN  IF p3 \div LimbBase > 0 \/ ~LimbLeq(prod, U64Max)
        THEN [some |-> FALSE, val |-> Limbs(0, 0, 0, 0)]
        ELSE [some |-> TRUE, val |-> prod]

(***************************************************************************)
(* Errors and results.                                                     *)
(***************************************************************************)
Err(e, inner, at) == [e |-> e, inner |-> inner, at |-> at]
Ok == Err("Ok", "", "")
FailedToGetCurrentTime == Err("FailedToGetCurrentTime", "", "")
WebPkiError(inner, at) == Err("WebPkiError", inner, at)
InvalidSct(inner) == Err("InvalidSct", inner, "")
PeerMisbehavedError == Err("PeerMisbehavedError", "", "")

\* unix_time_millis
unix_time_millis(now) ==
    IF now.before_epoch THEN [res |-> FailedToGetCurrentTime, millis |-> Limbs(0, 0, 0, 0)]
    ELSE LET m == checked_mul_1000(now.secs)
         IN  IF m.some THEN [res |-> Ok, millis |-> m.val]
             ELSE [res |-> FailedToGetCurrentTime, millis |-> Limbs(0, 0, 0, 0)]

(***************************************************************************)
(* Certificates.  A certificate is an opaque DER blob; what webpki reads   *)
(* from it is: whether it parses, its subject, its issuer, the last second *)
(* of its validity, its extended key usages, the DNS names it is valid for *)
(* and the type of its public key.                                         *)
(***************************************************************************)
Certificate(parses, subject, issuer, notAfter, eku, names, key) ==
    [parses |-> parses, subject |-> subject, issuer |-> issuer,
     not_after |-> notAfter, eku |-> eku, names |-> names, key |-> key]

NotAfter == Limbs(0, 0, 1800, 0)

CertBadDer == Certificate(FALSE, 0, 0, NotAfter, {}, {}, "P256")
CertServerA == Certificate(TRUE, 21, 1, NotAfter, {"serverAuth"}, {"a.example"}, "P256")
CertViaInter == Certificate(TRUE, 22, 11, NotAfter, {"serverAuth", "clientAuth"}, {"a.example", "b.example"}, "P384")
CertClientA == Certificate(TRUE, 23, 1, NotAfter, {"clientAuth"}, {}, "RSA")
CertUnknown == Certificate(TRUE, 24, 9, NotAfter, {"serverAuth", "clientAuth"}, {"a.example"}, "Ed25519")
Intermediate == Certificate(TRUE, 11, 2, NotAfter, {"serverAuth", "clientAuth"}, {}, "RSA")

DnsNames == {"a.example", "b.example"}

\* webpki::EndEntityCert::try_from
EndEntityCert_try_from(der) == IF der.parses THEN "Ok" ELSE "BadDER"

\* webpki chain building: the certificate's own properties first (validity
\* period, key usage), then a path to a trust anchor, directly or through
\* one of the intermediates presented.
webpki_build_chain(cert, usage, trustroots, chain, secs) ==
    IF ~LimbLeq(secs, cert.not_after) THEN "CertExpired"
    ELSE IF usage \notin cert.eku THEN "RequiredEkuNotFound"
    ELSE IF \/ \E i \in 1..Len(trustroots) : trustroots[i] = cert.issuer
            \/ \E j \in 1..Len(chain) :
                  /\ chain[j].parses
                  /\ chain[j].subject = cert.issuer
                  /\ LimbLeq(secs, chain[j].not_after)
                  /\ \E i \in 1..Len(trustroots) : trustroots[i] = chain[j].issuer
         THEN "Ok"
         ELSE "UnknownIssuer"

verify_is_valid_tls_server_cert(cert, trustroots, chain, secs) ==
    webpki_build_chain(cert, "serverAuth", trustroots, chain, secs)

verify_is_valid_tls_client_cert(cert, trustroots, chain, secs) ==
    webpki_build_chain(cert, "clientAuth", trustroots, chain, secs)

verify_is_valid_for_dns_name(cert, dns_name) ==
    IF dns_name \in cert.names THEN "Ok" ELSE "CertNotValidForName"

(***************************************************************************)
(* RootCertStore (crate::anchors): an ordered collection of trust anchors. *)
(***************************************************************************)
RootCertStore_empty == <<>>
RootCertStore_is_empty(roots) == Len(roots) = 0
RootCertStore_len(roots) == Len(roots)
SubjectOf(anchor) == 100 + anchor
RootCertStore_subjects(roots) == [i \in 1..Len(roots) |-> SubjectOf(roots[i])]
RootCertStore_add(roots, der) ==
    IF der = Malformed THEN [roots |-> roots, res |-> "Err"]
    ELSE [roots |-> Append(roots, der), res |-> "Ok"]
RootCertStore_add_server_trust_anchors(roots, anchors) == roots \o anchors
RootCertStore_add_parsable_certificates(roots, der_certs) ==
    LET good == SelectSeq(der_certs, LAMBDA d : d # Malformed)
    IN  [roots |-> roots \o good, valid |-> Len(good),
         invalid |-> Len(der_certs) - Len(good)]

\* prepare: the end-entity certificate must parse; the intermediates and the
\* store's anchors are passed on as they are.
prepare(end_entity, intermediates, roots) ==
    IF EndEntityCert_try_from(end_entity) # "Ok"
    THEN [res |-> WebPkiError(EndEntityCert_try_from(end_entity), "ParseEndEntity"),
          chain |-> <<>>, trustroots |-> <<>>]
    ELSE [res |-> Ok, chain |-> intermediates, trustroots |-> roots]

(***************************************************************************)
(* Values returned to the caller.  One record shape for all of them:       *)
(* tag names the variant, num/num2 carry counts, dns a list of subjects,   *)
(* err the error of an Err.                                                *)
(***************************************************************************)
Ret(tag, num, num2, dns, err) ==
    [tag |-> tag, num |-> num, num2 |-> num2, dns |-> dns, err |-> err]
RetTag(tag) == Ret(tag, 0, 0, <<>>, Ok)
RetUnit == RetTag("unit")
RetBool(b) == RetTag(IF b THEN "true" ELSE "false")
RetUsize(n) == Ret("usize", n, 0, <<>>, Ok)
RetNone == RetTag("None")
RetSomeBool(b) == RetTag(IF b THEN "SomeTrue" ELSE "SomeFalse")
RetSomeNames(dns) == Ret("SomeNames", 0, 0, dns, Ok)
RetSomeResult(r) == RetTag(IF r = "Ok" THEN "SomeOk" ELSE "SomeErr")
RetSomeCounts(a, b) == Ret("SomeCounts", a, b, <<>>, Ok)
RetToken(kind) == RetTag(kind)
RetErr(e) == Ret("Err", 0, 0, <<>>, e)
RetPanic == RetTag("panic")
NoRet == RetTag("none")

(***************************************************************************)
(* Proof tokens: the four marker types.  assertion() is each type's only   *)
(* constructor.                                                            *)
(***************************************************************************)
TokenKinds == {"HandshakeSignatureValid", "FinishedMessageVerified",
               "ServerCertVerified", "ClientCertVerified"}

assertion(kind) == RetToken(kind)

(***************************************************************************)
(* AllowAnyAuthenticatedClient: the always-require client verifier.        *)
(***************************************************************************)
AllowAnyAuthenticatedClient_client_auth_root_subjects(roots) ==
    RetSomeNames(RootCertStore_subjects(roots))

AllowAnyAuthenticatedClient_verify_client_cert(roots, end_entity, intermediates, now) ==
    LET p == prepare(end_entity, intermediates, roots)
        t == webpki_Time_try_from(now)
        v == verify_is_valid_tls_client_cert(end_entity, p.trustroots, p.chain, t.secs)
    IN  IF p.res # Ok THEN RetErr(p.res)
        ELSE IF ~t.ok THEN RetErr(FailedToGetCurrentTime)
        ELSE IF v # "Ok" THEN RetErr(WebPkiError(v, "ValidateClientCert"))
        ELSE assertion("ClientCertVerified")

(***************************************************************************)
(* ClientCertVerifyMode and SafeDefaultClientVerifier.  The operations are *)
(* written as functions of the mode found under the lock; a write          *)
(* operation yields the mode it leaves and the value it returns.           *)
(***************************************************************************)
AllowAnyClient == [tag |-> "AllowAnyClient", roots |-> <<>>]
MustVerifyClientCert(roots) == [tag |-> "MustVerifyClientCert", roots |-> roots]

Effect(m, r) == [mode |-> m, ret |-> r]

\* Mutant of SafeDefaultClientVerifier_new: the verifier starts anonymous.
SafeDefaultClientVerifier_new_anonymous == AllowAnyClient

SafeDefaultClientVerifier_new == MustVerifyClientCert(RootCertStore_empty)

serve_anonymous_clients(m) == Effect(AllowAnyClient, RetUnit)

\* Mutant of serve_only_authenticated_clients: the arms of the match swapped.
serve_only_authenticated_clients_swapped(m) ==
    IF m.tag = "AllowAnyClient" THEN Effect(m, RetUnit)
    ELSE Effect(MustVerifyClientCert(RootCertStore_empty), RetUnit)

\* Mutant of serve_only_authenticated_clients: the store is replaced in
\* both arms of the match.
serve_only_authenticated_clients_resets(m) ==
    Effect(MustVerifyClientCert(RootCertStore_empty), RetUnit)

serve_only_authenticated_clients(m) ==
    IF m.tag = "AllowAnyClient"
    THEN Effect(MustVerifyClientCert(RootCertStore_empty), RetUnit)
    ELSE Effect(m, RetUnit)

is_cert_store_empty(m) ==
    IF m.tag = "AllowAnyClient" THEN RetBool(TRUE)
    ELSE RetBool(RootCertStore_is_empty(m.roots))

root_cert_store_len(m) ==
    IF m.tag = "AllowAnyClient" THEN RetUsize(0)
    ELSE RetUsize(RootCertStore_len(m.roots))

\* Mutant of root_cert_store_subjects: an empty list while anonymous.
root_cert_store_subjects_some_empty(m) ==
    RetSomeNames(RootCertStore_subjects(m.roots))

root_cert_store_subjects(m) ==
    IF m.tag = "AllowAnyClient" THEN RetNone
    ELSE RetSomeNames(RootCertStore_subjects(m.roots))

\* Mutant of add_trusted_root_ca: in anonymous mode it starts a store.
add_trusted_root_ca_enables(m, der) ==
    LET a == RootCertStore_add(m.roots, der)
    IN  Effect(MustVerifyClientCert(a.roots), RetSomeResult(a.res))

add_trusted_root_ca(m, der) ==
    IF m.tag = "AllowAnyClient" THEN Effect(m, RetNone)
    ELSE LET a == RootCertStore_add(m.roots, der)
         IN  Effect(MustVerifyClientCert(a.roots), RetSomeResult(a.res))

add_server_trust_anchors(m, anchors) ==
    IF m.tag = "AllowAnyClient" THEN Effect(m, RetBool(FALSE))
    ELSE Effect(MustVerifyClientCert(RootCertStore_add_server_trust_anchors(m.roots, anchors)),
                RetBool(TRUE))

batch_add_certificates(m, der_certs) ==
    IF m.tag = "AllowAnyClient" THEN Effect(m, RetNone)
    ELSE LET a == RootCertStore_add_parsable_certificates(m.roots, der_certs)
         IN  Effect(MustVerifyClientCert(a.roots), RetSomeCounts(a.valid, a.invalid))

reset_root_cert_store(m) ==
    IF m.tag = "AllowAnyClient" THEN Effect(m, RetBool(FALSE))
    ELSE Effect(MustVerifyClientCert(RootCertStore_empty), RetBool(TRUE))

\* Mutant of offer_client_auth: client authentication is always offered.
offer_client_auth_always(m) == RetBool(TRUE)

offer_client_auth(m) ==
    IF m.tag = "AllowAnyClient" THEN RetBool(FALSE) ELSE RetBool(TRUE)

client_auth_mandatory(m) == RetSomeBool(offer_client_auth(m) = RetBool(TRUE))

\* Mutant of client_auth_root_subjects: no names while anonymous.
client_auth_root_subjects_none(m) ==
    IF m.tag = "AllowAnyClient" THEN RetNone
    ELSE AllowAnyAuthenticatedClient_client_auth_root_subjects(m.roots)

client_auth_root_subjects(m) ==
    IF m.tag = "AllowAnyClient" THEN RetPanic
    ELSE AllowAnyAuthenticatedClient_client_auth_root_subjects(m.roots)

verify_client_cert(m, end_entity, intermediates, now) ==
    IF m.tag = "AllowAnyClient" THEN RetPanic
    ELSE AllowAnyAuthenticatedClient_verify_client_cert(m.roots, end_entity, intermediates, now)

(***************************************************************************)
(* Signature schemes and their resolution.                                 *)
(***************************************************************************)
SUPPORTED_SIG_ALGS ==
    <<"ECDSA_P256_SHA256", "ECDSA_P256_SHA384", "ECDSA_P384_SHA256", "ECDSA_P384_SHA384",
      "ED25519", "RSA_PSS_2048_8192_SHA256_LEGACY_KEY", "RSA_PSS_2048_8192_SHA384_LEGACY_KEY",
      "RSA_PSS_2048_8192_SHA512_LEGACY_KEY", "RSA_PKCS1_2048_8192_SHA256",
      "RSA_PKCS1_2048_8192_SHA384", "RSA_PKCS1_2048_8192_SHA512",
      "RSA_PKCS1_3072_8192_SHA384">>

verification_schemes ==
    <<"ECDSA_NISTP384_SHA384", "ECDSA_NISTP256_SHA256", "ED25519",
      "RSA_PSS_SHA512", "RSA_PSS_SHA384", "RSA_PSS_SHA256",
      "RSA_PKCS1_SHA512", "RSA_PKCS1_SHA384", "RSA_PKCS1_SHA256">>

\* ServerCertVerifier::supported_verify_schemes and
\* ClientCertVerifier::supported_verify_schemes (the traits' default)
supported_verify_schemes == verification_schemes

\* Schemes of the registry that the resolvers do not list.
OtherSchemes == {"RSA_PKCS1_SHA1", "ECDSA_SHA1_Legacy", "ECDSA_NISTP521_SHA512", "ED448"}

SignatureSchemes == {verification_schemes[i] : i \in 1..Len(verification_schemes)}
                    \cup OtherSchemes

\* Mutant of ECDSA_SHA256: the P-384 variant is missing.
ECDSA_SHA256_p256_only == <<"ECDSA_P256_SHA256">>

ECDSA_SHA256 == <<"ECDSA_P256_SHA256", "ECDSA_P384_SHA256">>
ECDSA_SHA384 == <<"ECDSA_P256_SHA384", "ECDSA_P384_SHA384">>
ED25519 == <<"ED25519">>
RSA_SHA256 == <<"RSA_PKCS1_2048_8192_SHA256">>
RSA_SHA384 == <<"RSA_PKCS1_2048_8192_SHA384">>
RSA_SHA512 == <<"RSA_PKCS1_2048_8192_SHA512">>
RSA_PSS_SHA256 == <<"RSA_PSS_2048_8192_SHA256_LEGACY_KEY">>
RSA_PSS_SHA384 == <<"RSA_PSS_2048_8192_SHA384_LEGACY_KEY">>
RSA_PSS_SHA512 == <<"RSA_PSS_2048_8192_SHA512_LEGACY_KEY">>

Resolved(algs) == [res |-> Ok, algs |-> algs]
Unresolved == [res |-> PeerMisbehavedError, algs |-> <<>>]

convert_scheme(scheme) ==
    CASE scheme = "ECDSA_NISTP256_SHA256" -> Resolved(ECDSA_SHA256)
      [] scheme = "ECDSA_NISTP384_SHA384" -> Resolved(ECDSA_SHA384)
      [] scheme = "ED25519" -> Resolved(ED25519)
      [] scheme = "RSA_PKCS1_SHA256" -> Resolved(RSA_SHA256)
      [] scheme = "RSA_PKCS1_SHA384" -> Resolved(RSA_SHA384)
      [] scheme = "RSA_PKCS1_SHA512" -> Resolved(RSA_SHA512)
      [] scheme = "RSA_PSS_SHA256" -> Resolved(RSA_PSS_SHA256)
      [] scheme = "RSA_PSS_SHA384" -> Resolved(RSA_PSS_SHA384)
      [] scheme = "RSA_PSS_SHA512" -> Resolved(RSA_PSS_SHA512)
      [] OTHER -> Unresolved

\* Mutant of convert_alg_tls13: RSA-PKCS1 with SHA-256 is resolved too.
convert_alg_tls13_accepts_pkcs1(scheme) ==
    CASE scheme = "ECDSA_NISTP256_SHA256" -> Resolved(<<"ECDSA_P256_SHA256">>)
      [] scheme = "ECDSA_NISTP384_SHA384" -> Resolved(<<"ECDSA_P384_SHA384">>)
      [] scheme = "ED25519" -> Resolved(<<"ED25519">>)
      [] scheme = "RSA_PKCS1_SHA256" -> Resolved(<<"RSA_PKCS1_2048_8192_SHA256">>)
      [] scheme = "RSA_PSS_SHA256" -> Resolved(<<"RSA_PSS_2048_8192_SHA256_LEGACY_KEY">>)
      [] scheme = "RSA_PSS_SHA384" -> Resolved(<<"RSA_PSS_2048_8192_SHA384_LEGACY_KEY">>)
      [] scheme = "RSA_PSS_SHA512" -> Resolved(<<"RSA_PSS_2048_8192_SHA512_LEGACY_KEY">>)
      [] OTHER -> Unresolved

convert_alg_tls13(scheme) ==
    CASE scheme = "ECDSA_NISTP256_SHA256" -> Resolved(<<"ECDSA_P256_SHA256">>)
      [] scheme = "ECDSA_NISTP384_SHA384" -> Resolved(<<"ECDSA_P384_SHA384">>)
      [] scheme = "ED25519" -> Resolved(<<"ED25519">>)
      [] scheme = "RSA_PSS_SHA256" -> Resolved(<<"RSA_PSS_2048_8192_SHA256_LEGACY_KEY">>)
      [] scheme = "RSA_PSS_SHA384" -> Resolved(<<"RSA_PSS_2048_8192_SHA384_LEGACY_KEY">>)
      [] scheme = "RSA_PSS_SHA512" -> Resolved(<<"RSA_PSS_2048_8192_SHA512_LEGACY_KEY">>)
      [] OTHER -> Unresolved

\* The public-key type a webpki::SignatureAlgorithm applies to.
KeyOf(alg) ==
    CASE alg \in {"ECDSA_P256_SHA256", "ECDSA_P256_SHA384"} -> "P256"
      [] alg \in {"ECDSA_P384_SHA256", "ECDSA_P384_SHA384"} -> "P384"
      [] alg = "ED25519" -> "Ed25519"
      [] OTHER -> "RSA"

\* A signature: made with algorithm alg by the key of the certificate whose
\* subject is signer, over message msg.
Signature(alg, signer, msg) == [alg |-> alg, signer |-> signer, msg |-> msg]

\* webpki::EndEntityCert::verify_signature
cert_verify_signature(cert, alg, message, sig) ==
    IF KeyOf(alg) # cert.key THEN "UnsupportedSignatureAlgorithmForPublicKey"
    ELSE IF sig.alg = alg /\ sig.signer = cert.subject /\ sig.msg = message THEN "Ok"
    ELSE "InvalidSignatureForPublicKey"

\* Mutant of verify_sig_using_any_alg: every failure moves on to the next
\* candidate, and the failure of the last one tried is returned.
RECURSIVE verify_sig_using_any_alg_skip_all(_, _, _, _)
verify_sig_using_any_alg_skip_all(cert, algs, message, sig) ==
    IF Len(algs) = 0
    THEN [res |-> "UnsupportedSignatureAlgorithmForPublicKey", tried |-> 0]
    ELSE LET r == cert_verify_signature(cert, Head(algs), message, sig)
         IN  IF r # "Ok" /\ Len(algs) > 1
             THEN LET rest == verify_sig_using_any_alg_skip_all(cert, Tail(algs), message, sig)
                  IN  [res |-> rest.res, tried |-> rest.tried + 1]
             ELSE [res |-> r, tried |-> 1]

\* verify_sig_using_any_alg: the result, and how many candidates were tried.
RECURSIVE verify_sig_using_any_alg(_, _, _, _)
verify_sig_using_any_alg(cert, algs, message, sig) ==
    IF Len(algs) = 0
    THEN [res |-> "UnsupportedSignatureAlgorithmForPublicKey", tried |-> 0]
    ELSE LET r == cert_verify_signature(cert, Head(algs), message, sig)
         IN  IF r = "UnsupportedSignatureAlgorithmForPublicKey"
             THEN LET rest == verify_sig_using_any_alg(cert, Tail(algs), message, sig)
                  IN  [res |-> rest.res, tried |-> rest.tried + 1]
             ELSE [res |-> r, tried |-> 1]

DigitallySignedStruct(scheme, sig) == [scheme |-> scheme, sig |-> sig]

Checked(r, tried) == [ret |-> r, tried |-> tried]

\* Mutant of verify_signed_struct: the certificate is parsed before the
\* scheme is resolved.
verify_signed_struct_parse_first(message, cert, dss) ==
    LET possible_algs == convert_scheme(dss.scheme)
        v == verify_sig_using_any_alg(cert, possible_algs.algs, message, dss.sig)
    IN  IF EndEntityCert_try_from(cert) # "Ok"
        THEN Checked(RetErr(WebPkiError(EndEntityCert_try_from(cert), "ParseEndEntity")), 0)
        ELSE IF possible_algs.res # Ok THEN Checked(RetErr(possible_algs.res), 0)
        ELSE IF v.res # "Ok" THEN Checked(RetErr(WebPkiError(v.res, "VerifySignature")), v.tried)
        ELSE Checked(assertion("HandshakeSignatureValid"), v.tried)

\* Mutant of verify_tls13: the TLS-1.2 candidates are tried.
verify_tls13_with_fallback(msg, cert, dss) ==
    LET possible_algs == convert_scheme(dss.scheme)
        alg == convert_alg_tls13(dss.scheme)
        v == verify_sig_using_any_alg(cert, possible_algs.algs, msg, dss.sig)
    IN  IF alg.res # Ok THEN Checked(RetErr(alg.res), 0)
        ELSE IF EndEntityCert_try_from(cert) # "Ok"
        THEN Checked(RetErr(WebPkiError(EndEntityCert_try_from(cert), "ParseEndEntity")), 0)
        ELSE IF v.res # "Ok" THEN Checked(RetErr(WebPkiError(v.res, "VerifySignature")), v.tried)
        ELSE Checked(assertion("HandshakeSignatureValid"), v.tried)

\* verify_signed_struct: the TLS-1.2 signature check
verify_signed_struct(message, cert, dss) ==
    LET possible_algs == convert_scheme(dss.scheme)
        v == verify_sig_using_any_alg(cert, possible_algs.algs, message, dss.sig)
    IN  IF possible_algs.res # Ok THEN Checked(RetErr(possible_algs.res), 0)
        ELSE IF EndEntityCert_try_from(cert) # "Ok"
        THEN Checked(RetErr(WebPkiError(EndEntityCert_try_from(cert), "ParseEndEntity")), 0)
        ELSE IF v.res # "Ok" THEN Checked(RetErr(WebPkiError(v.res, "VerifySignature")), v.tried)
        ELSE Checked(assertion("HandshakeSignatureValid"), v.tried)

\* Mutant of verify_tls13: the result of the signature check is dropped.
verify_tls13_result_dropped(msg, cert, dss) ==
    LET alg == convert_alg_tls13(dss.scheme)
    IN  IF alg.res # Ok THEN Checked(RetErr(alg.res), 0)
        ELSE IF EndEntityCert_try_from(cert) # "Ok"
        THEN Checked(RetErr(WebPkiError(EndEntityCert_try_from(cert), "ParseEndEntity")), 0)
        ELSE Checked(assertion("HandshakeSignatureValid"), 1)

\* verify_tls13: the TLS-1.3 signature check
verify_tls13(msg, cert, dss) ==
    LET alg == convert_alg_tls13(dss.scheme)
        v == cert_verify_signature(cert, alg.algs[1], msg, dss.sig)
    IN  IF alg.res # Ok THEN Checked(RetErr(alg.res), 0)
        ELSE IF EndEntityCert_try_from(cert) # "Ok"
        THEN Checked(RetErr(WebPkiError(EndEntityCert_try_from(cert), "ParseEndEntity")), 0)
        ELSE IF v # "Ok" THEN Checked(RetErr(WebPkiError(v, "VerifySignature")), 1)
        ELSE Checked(assertion("HandshakeSignatureValid"), 1)

(***************************************************************************)
(* Signed Certificate Timestamps.  What sct::verify_sct reads from a blob: *)
(* whether it decodes, its version, the log that signed it, whether the    *)
(* log's signature over the certificate is good, and its timestamp in      *)
(* milliseconds.                                                           *)
(***************************************************************************)
Sct(wellformed, version, log, sig_ok, ts) ==
    [wellformed |-> wellformed, version |-> version, log |-> log,
     sig_ok |-> sig_ok, ts |-> ts]

SctValid == Sct(TRUE, 1, 7, TRUE, Limbs(0, 1, 600000, 0))
SctUnknownLog == Sct(TRUE, 1, 8, TRUE, Limbs(0, 1, 600000, 0))
SctOldVersion == Sct(TRUE, 2, 7, TRUE, Limbs(0, 1, 600000, 0))
SctMalformed == Sct(FALSE, 1, 7, TRUE, Limbs(0, 1, 600000, 0))
SctBadSig == Sct(TRUE, 1, 7, FALSE, Limbs(0, 1, 600000, 0))
SctFuture == Sct(TRUE, 1, 7, TRUE, Limbs(0, 1, 800000, 0))

\* sct::verify_sct
sct_verify_sct(cert, sct, at_time, logs) ==
    IF ~sct.wellformed THEN "MalformedSCT"
    ELSE IF sct.version # 1 THEN "UnsupportedSCTVersion"
    ELSE IF ~\E i \in 1..Len(logs) : logs[i] = sct.log THEN "UnknownLog"
    ELSE IF ~sct.sig_ok THEN "InvalidSignature"
    ELSE IF ~LimbLeq(sct.ts, at_time) THEN "TimestampInFuture"
    ELSE "Ok"

\* Mutant of should_be_fatal: no error is fatal.
should_be_fatal_never(e) == FALSE

\* sct::Error::should_be_fatal
should_be_fatal(e) == e \notin {"UnknownLog", "UnsupportedSCTVersion"}

Scanned(res, taken) == [res |-> res, taken |-> taken]

\* Mutant of verify_scts_loop: the first soft error is kept, not the last.
RECURSIVE verify_scts_loop_first_error(_, _, _, _, _, _)
verify_scts_loop_first_error(cert, at_time, scts, logs, last_sct_error, taken) ==
    IF Len(scts) = 0
    THEN IF last_sct_error # "" THEN Scanned(InvalidSct(last_sct_error), taken)
         ELSE Scanned(Ok, taken)
    ELSE LET r == sct_verify_sct(cert, Head(scts), at_time, logs)
         IN  IF r = "Ok" THEN Scanned(Ok, taken + 1)
             ELSE IF should_be_fatal(r) THEN Scanned(InvalidSct(r), taken + 1)
             ELSE verify_scts_loop_first_error(cert, at_time, Tail(scts), logs,
                      IF last_sct_error = "" THEN r ELSE last_sct_error, taken + 1)

\* The loop of verify_scts over the iterator: the result and the number of
\* SCTs taken from it.
RECURSIVE verify_scts_loop(_, _, _, _, _, _)
verify_scts_loop(cert, at_time, scts, logs, last_sct_error, taken) ==
    IF Len(scts) = 0
    THEN IF last_sct_error # "" THEN Scanned(InvalidSct(last_sct_error), taken)
         ELSE Scanned(Ok, taken)
    ELSE LET r == sct_verify_sct(cert, Head(scts), at_time, logs)
         IN  IF r = "Ok" THEN Scanned(Ok, taken + 1)
             ELSE IF should_be_fatal(r) THEN Scanned(InvalidSct(r), taken + 1)
             ELSE verify_scts_loop(cert, at_time, Tail(scts), logs, r, taken + 1)

\* Mutant of verify_scts: the time is converted before the logs are looked at.
verify_scts_time_first(cert, now, scts, logs) ==
    LET t == unix_time_millis(now)
    IN  IF t.res # Ok THEN Scanned(t.res, 0)
        ELSE IF Len(logs) = 0 THEN Scanned(Ok, 0)
        ELSE verify_scts_loop(cert, t.millis, scts, logs, "", 0)

verify_scts(cert, now, scts, logs) ==
    IF Len(logs) = 0 THEN Scanned(Ok, 0)
    ELSE LET t == unix_time_millis(now)
         IN  IF t.res # Ok THEN Scanned(t.res, 0)
             ELSE verify_scts_loop(cert, t.millis, scts, logs, "", 0)

(***************************************************************************)
(* The lock.  mode is a parking_lot::RwLock: any number of read guards or  *)
(* one write guard; a thread that asks for a guard parks in arrival order  *)
(* and is served when it is first in line and the guard it asks for can be *)
(* given (the lock is task-fair: a reader does not overtake a parked       *)
(* writer).  LockKind is the guard each operation takes: mode.read() or    *)
(* mode.write().                                                           *)
(***************************************************************************)
\* Mutant of LockKind: reset_root_cert_store takes the read guard.
LockKind_reset_reads(o) ==
    IF o \in {"serve_anonymous_clients", "serve_only_authenticated_clients",
              "add_trusted_root_ca", "add_server_trust_anchors", "batch_add_certificates"}
    THEN "write" ELSE "read"

LockKind(o) ==
    CASE o = "serve_anonymous_clients" -> "write"
      [] o = "serve_only_authenticated_clients" -> "write"
      [] o = "is_cert_store_empty" -> "read"
      [] o = "root_cert_store_len" -> "read"
      [] o = "root_cert_store_subjects" -> "read"
      [] o = "add_trusted_root_ca" -> "write"
      [] o = "add_server_trust_anchors" -> "write"
      [] o = "batch_add_certificates" -> "write"
      [] o = "reset_root_cert_store" -> "write"
      [] o = "offer_client_auth" -> "read"
      [] o = "client_auth_mandatory" -> "read"
      [] o = "client_auth_root_subjects" -> "read"
      [] o = "verify_client_cert" -> "read"

\* Mutant of AcquiresWhileHolding: client_auth_mandatory keeps a read guard
\* while it calls offer_client_auth, which asks for another.
AcquiresWhileHolding_mandatory(o) == o = "client_auth_mandatory"

\* Whether the operation asks for the lock again while it holds its guard.
\* No operation does: each has one mode.read() or mode.write(), and
\* client_auth_mandatory holds nothing when it calls offer_client_auth.
AcquiresWhileHolding(o) == FALSE

\* Mutant of GuardHeldWhileVerifying: the guard is dropped before the call
\* of the inner verifier.
GuardHeldWhileVerifying_dropped == FALSE

\* Whether the guard is still held while the inner verifier verifies the
\* chain: the guard is a temporary of the match scrutinee and lives to the
\* end of the match, whose arm makes the call.
GuardHeldWhileVerifying == TRUE

Arg(der, list, cert, now) == [der |-> der, list |-> list, cert |-> cert, now |-> now]
NoArg == Arg(Malformed, <<>>, CertBadDer, TEpoch)

ClientCerts == {CertBadDer, CertClientA, CertUnknown}
ClientTimes == {TBeforeEpoch, TNow}

Calls ==
    {<<o, NoArg>> : o \in {"serve_anonymous_clients", "serve_only_authenticated_clients",
                           "is_cert_store_empty", "root_cert_store_len",
                           "root_cert_store_subjects", "reset_root_cert_store",
                           "offer_client_auth", "client_auth_mandatory",
                           "client_auth_root_subjects"}}
    \cup {<<"add_trusted_root_ca", Arg(d, <<>>, CertBadDer, TEpoch)>> : d \in DerCerts}
    \cup {<<"add_server_trust_anchors", Arg(Malformed, l, CertBadDer, TEpoch)>> : l \in AnchorLists}
    \cup {<<"batch_add_certificates", Arg(Malformed, l, CertBadDer, TEpoch)>> : l \in DerLists}
    \cup {<<"verify_client_cert", Arg(Malformed, <<>>, c, n)>> : c \in ClientCerts, n \in ClientTimes}

ConcCalls ==
    {<<o, NoArg>> : o \in {"serve_anonymous_clients", "serve_only_authenticated_clients",
                           "is_cert_store_empty", "root_cert_store_len",
                           "root_cert_store_subjects", "reset_root_cert_store",
                           "offer_client_auth", "client_auth_mandatory",
                           "client_auth_root_subjects"}}
    \cup {<<"add_trusted_root_ca", Arg(1, <<>>, CertBadDer, TEpoch)>>,
          <<"add_server_trust_anchors", Arg(Malformed, <<2>>, CertBadDer, TEpoch)>>,
          <<"batch_add_certificates", Arg(Malformed, <<1, Malformed>>, CertBadDer, TEpoch)>>,
          <<"verify_client_cert", Arg(Malformed, <<>>, CertClientA, TNow)>>}

\* Anchors an operation would add to the store.
AddSize(o, a) ==
    CASE o = "add_trusted_root_ca" -> IF a.der = Malformed THEN 0 ELSE 1
      [] o = "add_server_trust_anchors" -> Len(a.list)
      [] o = "batch_add_certificates" -> Len(SelectSeq(a.list, LAMBDA d : d # Malformed))
      [] OTHER -> 0

RECURSIVE PendingAdds(_)
PendingAdds(S) ==
    IF S = {} THEN 0
    ELSE LET t == CHOOSE x \in S : TRUE
         IN  (IF pc[t] \in {"wait", "locked"} THEN AddSize(op[t], arg[t]) ELSE 0)
             + PendingAdds(S \ {t})

\* No verify_server_cert call in progress.
HsIdle ==
    [pc |-> "idle", end_entity |-> CertBadDer, intermediates |-> <<>>,
     dns_name |-> "a.example", scts |-> <<>>, now |-> TEpoch,
     trace |-> <<>>, taken |-> 0, ret |-> NoRet]

Called(fn, cert, chain, now, scheme, msg, sig, out) ==
    [fn |-> fn, cert |-> cert, chain |-> chain, now |-> now, scheme |-> scheme,
     msg |-> msg, sig |-> sig, ret |-> out.ret, tried |-> out.tried]

NoCall == Called("none", CertBadDer, <<>>, TEpoch, "ED25519", 0,
                 Signature("ED25519", 0, 0), Checked(NoRet, 0))

WebPkiVerifier_new(roots, ct_logs) == [roots |-> roots, ct_logs |-> ct_logs]

InitClient ==
    /\ mode = SafeDefaultClientVerifier_new
    /\ lockWriter = 0
    /\ lockReaders = {}
    /\ lockQueue = <<>>
    /\ pc = [t \in Threads |-> "idle"]
    /\ op = [t \in Threads |-> "none"]
    /\ arg = [t \in Threads |-> NoArg]
    /\ ret = [t \in Threads |-> NoRet]
    /\ before = [t \in Threads |-> AllowAnyClient]
    /\ mutated = FALSE
    /\ excursion = -1
    /\ offered = [t \in Threads |-> FALSE]

InitServer(stores, logsets) ==
    /\ wpv \in {WebPkiVerifier_new(r, l) : r \in stores, l \in logsets}
    /\ hs = HsIdle
    /\ last = NoCall
    /\ held = {}

Init ==
    /\ InitClient
    /\ InitServer({<<>>}, {<<>>})

\* A thread invokes an operation and asks for its guard.
CallFrom(t, calls) ==
    /\ pc[t] = "idle"
    /\ \E c \in calls :
          /\ Len(mode.roots) + PendingAdds(Threads) + AddSize(c[1], c[2]) <= MaxRoots
          /\ op' = [op EXCEPT ![t] = c[1]]
          /\ arg' = [arg EXCEPT ![t] = c[2]]
    /\ pc' = [pc EXCEPT ![t] = "wait"]
    /\ lockQueue' = Append(lockQueue, t)
    /\ UNCHANGED <<mode, lockWriter, lockReaders, ret, before, mutated, excursion, offered, serverVars>>

AcquireRead(t) ==
    /\ pc[t] = "wait"
    /\ LockKind(op[t]) = "read"
    /\ lockQueue # <<>> /\ Head(lockQueue) = t
    /\ lockWriter = 0
    /\ lockReaders' = lockReaders \cup {t}
    /\ lockQueue' = Tail(lockQueue)
    /\ pc' = [pc EXCEPT ![t] = "locked"]
    /\ UNCHANGED <<mode, lockWriter, op, arg, ret, before, mutated, excursion, offered, serverVars>>

AcquireWrite(t) ==
    /\ pc[t] = "wait"
    /\ LockKind(op[t]) = "write"
    /\ lockQueue # <<>> /\ Head(lockQueue) = t
    /\ lockWriter = 0
    /\ lockReaders = {}
    /\ lockWriter' = t
    /\ lockQueue' = Tail(lockQueue)
    /\ pc' = [pc EXCEPT ![t] = "locked"]
    /\ UNCHANGED <<mode, lockReaders, op, arg, ret, before, mutated, excursion, offered, serverVars>>

\* The body of a read operation: the value it computes from the mode.
ReadBody(t, o, r) ==
    /\ pc[t] = "locked"
    /\ op[t] = o
    /\ ~AcquiresWhileHolding(o)
    /\ before' = [before EXCEPT ![t] = mode]
    /\ ret' = [ret EXCEPT ![t] = r]
    /\ pc' = [pc EXCEPT ![t] = "done"]
    /\ UNCHANGED <<mode, lockWriter, lockReaders, lockQueue, op, arg, mutated, excursion, offered, serverVars>>

\* The body of a write operation: the mode it leaves and the value it returns.
WriteBody(t, o, eff, exc) ==
    /\ pc[t] = "locked"
    /\ op[t] = o
    /\ ~AcquiresWhileHolding(o)
    /\ before' = [before EXCEPT ![t] = mode]
    /\ mode' = eff.mode
    /\ ret' = [ret EXCEPT ![t] = eff.ret]
    /\ pc' = [pc EXCEPT ![t] = "done"]
    /\ mutated' = TRUE
    /\ excursion' = exc
    /\ UNCHANGED <<lockWriter, lockReaders, lockQueue, op, arg, offered, serverVars>>

\* excursion after a store mutation: forgotten once the store is touched in
\* must-verify mode.
AfterStoreOp == IF mode.tag = "AllowAnyClient" THEN excursion ELSE -1

Exec_serve_anonymous_clients(t) ==
    WriteBody(t, "serve_anonymous_clients", serve_anonymous_clients(mode),
              IF mode.tag = "AllowAnyClient" THEN excursion ELSE Len(mode.roots))

Exec_serve_only_authenticated_clients(t) ==
    WriteBody(t, "serve_only_authenticated_clients",
              serve_only_authenticated_clients(mode), excursion)

Exec_is_cert_store_empty(t) ==
    ReadBody(t, "is_cert_store_empty", is_cert_store_empty(mode))

Exec_root_cert_store_len(t) ==
    ReadBody(t, "root_cert_store_len", root_cert_store_len(mode))

Exec_root_cert_store_subjects(t) ==
    ReadBody(t, "root_cert_store_subjects", root_cert_store_subjects(mode))

Exec_add_trusted_root_ca(t) ==
    WriteBody(t, "add_trusted_root_ca", add_trusted_root_ca(mode, arg[t].der), AfterStoreOp)

Exec_add_server_trust_anchors(t) ==
    WriteBody(t, "add_server_trust_anchors", add_server_trust_anchors(mode, arg[t].list),
              AfterStoreOp)

Exec_batch_add_certificates(t) ==
    WriteBody(t, "batch_add_certificates", batch_add_certificates(mode, arg[t].list),
              AfterStoreOp)

Exec_reset_root_cert_store(t) ==
    WriteBody(t, "reset_root_cert_store", reset_root_cert_store(mode), AfterStoreOp)

Exec_offer_client_auth(t) ==
    ReadBody(t, "offer_client_auth", offer_client_auth(mode))

Exec_client_auth_mandatory(t) ==
    ReadBody(t, "client_auth_mandatory", client_auth_mandatory(mode))

Exec_client_auth_root_subjects(t) ==
    ReadBody(t, "client_auth_root_subjects", client_auth_root_subjects(mode))

\* verify_client_cert matches on the mode: the anonymous arm panics, the
\* must-verify arm calls the inner verifier.
Exec_verify_client_cert(t) ==
    /\ pc[t] = "locked"
    /\ op[t] = "verify_client_cert"
    /\ ~AcquiresWhileHolding("verify_client_cert")
    /\ before' = [before EXCEPT ![t] = mode]
    /\ IF mode.tag = "AllowAnyClient"
       THEN /\ ret' = [ret EXCEPT ![t] = RetPanic]
            /\ pc' = [pc EXCEPT ![t] = "done"]
            /\ UNCHANGED lockReaders
       ELSE /\ ret' = ret
            /\ pc' = [pc EXCEPT ![t] = "verifying"]
            /\ lockReaders' = IF GuardHeldWhileVerifying THEN lockReaders
                              ELSE lockReaders \ {t}
    /\ UNCHANGED <<mode, lockWriter, lockQueue, op, arg, mutated, excursion, offered, serverVars>>

\* The inner verifier's chain verification, on the store the match bound.
Inner_verify_client_cert(t) ==
    /\ pc[t] = "verifying"
    /\ ret' = [ret EXCEPT ![t] =
                 verify_client_cert(before[t], arg[t].cert, arg[t].list, arg[t].now)]
    /\ pc' = [pc EXCEPT ![t] = "done"]
    /\ UNCHANGED <<mode, lockWriter, lockReaders, lockQueue, op, arg, before,
                   mutated, excursion, offered, serverVars>>

\* The guard is dropped (also when the body panicked: the unwinding drops
\* it) and the operation returns ret to its caller.
Return(t) ==
    /\ pc[t] = "done"
    /\ lockWriter' = IF lockWriter = t THEN 0 ELSE lockWriter
    /\ lockReaders' = lockReaders \ {t}
    /\ pc' = [pc EXCEPT ![t] = "idle"]
    /\ op' = [op EXCEPT ![t] = "none"]
    /\ arg' = [arg EXCEPT ![t] = NoArg]
    /\ ret' = [ret EXCEPT ![t] = NoRet]
    /\ before' = [before EXCEPT ![t] = AllowAnyClient]
    /\ UNCHANGED <<mode, lockQueue, mutated, excursion, serverVars>>

Release(t) == Return(t) /\ UNCHANGED offered

\* The operation returns to a handshake, which keeps what offer_client_auth
\* told it until it asks again.
Release_observed(t) ==
    /\ Return(t)
    /\ offered' = [offered EXCEPT ![t] =
                      IF op[t] = "offer_client_auth" THEN ret[t] = RetBool(TRUE)
                      ELSE offered[t]]

ThreadBody(t) ==
    \/ AcquireRead(t)
    \/ AcquireWrite(t)
    \/ Exec_serve_anonymous_clients(t)
    \/ Exec_serve_only_authenticated_clients(t)
    \/ Exec_is_cert_store_empty(t)
    \/ Exec_root_cert_store_len(t)
    \/ Exec_root_cert_store_subjects(t)
    \/ Exec_add_trusted_root_ca(t)
    \/ Exec_add_server_trust_anchors(t)
    \/ Exec_batch_add_certificates(t)
    \/ Exec_reset_root_cert_store(t)
    \/ Exec_offer_client_auth(t)
    \/ Exec_client_auth_mandatory(t)
    \/ Exec_client_auth_root_subjects(t)
    \/ Exec_verify_client_cert(t)
    \/ Inner_verify_client_cert(t)

ThreadStep(t) == ThreadBody(t) \/ Release(t)

Call(t) == CallFrom(t, Calls)

\* Two threads, every operation with every argument.
Next == \E t \in {1, 2} : Call(t) \/ ThreadStep(t)

Spec == Init /\ [][Next]_vars

CallConc(t) == CallFrom(t, ConcCalls)

\* Three threads, every operation with one argument.
NextConc == \E t \in Threads : CallConc(t) \/ ThreadStep(t)

SpecConc == Init /\ [][NextConc]_vars

\* What a handshake calls on the verifier, and what the thread that
\* administers the verifier calls.
HandshakeCalls ==
    {c \in ConcCalls : c[1] \in {"offer_client_auth", "client_auth_mandatory",
                                 "client_auth_root_subjects", "verify_client_cert"}}
AdminCalls == {c \in ConcCalls : LockKind(c[1]) = "write"}
QueryCalls == ConcCalls \ (HandshakeCalls \cup AdminCalls)

CallHandshake(t) == CallFrom(t, HandshakeCalls)
CallAdmin(t) == CallFrom(t, AdminCalls \cup QueryCalls)

\* Thread 1 runs handshakes, thread 2 administers the verifier.
NextRace ==
    \/ CallHandshake(1)
    \/ CallAdmin(2)
    \/ \E t \in {1, 2} : ThreadBody(t) \/ Release_observed(t)

SpecRace == Init /\ [][NextRace]_vars

(***************************************************************************)
(* WebPkiVerifier::verify_server_cert, step by step.  The steps run in the *)
(* order of the function's statements; a step that fails returns its error *)
(* at once (the ? operator), and the value of the last step is mapped to   *)
(* the ServerCertVerified token.                                           *)
(***************************************************************************)
FirstStep == "prepare"

\* Mutant of StepAfter: the DNS-name check is left out.
StepAfter_without_name(s) ==
    CASE s = "prepare" -> "time"
      [] s = "time" -> "chain"
      [] s = "chain" -> "scts"
      [] s = "scts" -> "done"
      [] s = "name" -> "done"

\* Mutant of StepAfter: the SCT evaluation is left out.
StepAfter_without_scts(s) ==
    CASE s = "prepare" -> "time"
      [] s = "time" -> "chain"
      [] s = "chain" -> "name"
      [] s = "scts" -> "name"
      [] s = "name" -> "done"

\* Mutant of StepAfter: the DNS name is checked before the SCTs.
StepAfter_name_first(s) ==
    CASE s = "prepare" -> "time"
      [] s = "time" -> "chain"
      [] s = "chain" -> "name"
      [] s = "name" -> "scts"
      [] s = "scts" -> "done"

StepAfter(s) ==
    CASE s = "prepare" -> "time"
      [] s = "time" -> "chain"
      [] s = "chain" -> "scts"
      [] s = "scts" -> "name"
      [] s = "name" -> "done"

\* What one step computes: its result, and the SCTs it takes from the iterator.
StepOutcome(s, v, h) ==
    CASE s = "prepare" ->
            Scanned(prepare(h.end_entity, h.intermediates, v.roots).res, 0)
      [] s = "time" ->
            Scanned(IF webpki_Time_try_from(h.now).ok THEN Ok ELSE FailedToGetCurrentTime, 0)
      [] s = "chain" ->
            LET p == prepare(h.end_entity, h.intermediates, v.roots)
                r == verify_is_valid_tls_server_cert(h.end_entity, p.trustroots, p.chain,
                                                     webpki_Time_try_from(h.now).secs)
            IN  Scanned(IF r = "Ok" THEN Ok ELSE WebPkiError(r, "ValidateServerCert"), 0)
      [] s = "scts" -> verify_scts(h.end_entity, h.now, h.scts, v.ct_logs)
      [] s = "name" ->
            LET r == verify_is_valid_for_dns_name(h.end_entity, h.dns_name)
            IN  Scanned(IF r = "Ok" THEN Ok ELSE WebPkiError(r, "ValidateForDnsName"), 0)

ServerInput(ee, inter, name, scts, now) ==
    [end_entity |-> ee, intermediates |-> inter, dns_name |-> name, scts |-> scts, now |-> now]

ServerCerts == {CertBadDer, CertServerA, CertViaInter, CertClientA, CertUnknown}
SctLists == {<<>>, <<SctValid>>, <<SctUnknownLog>>, <<SctUnknownLog, SctValid>>,
             <<SctMalformed, SctValid>>, <<SctOldVersion, SctBadSig, SctValid>>,
             <<SctValid, SctMalformed>>, <<SctUnknownLog, SctOldVersion>>, <<SctFuture>>}

ServerInputs ==
    {ServerInput(ee, inter, name, scts, now) :
        ee \in ServerCerts, inter \in {<<>>, <<Intermediate>>}, name \in DnsNames,
        scts \in SctLists, now \in Times}

\* The handshake layer calls verify_server_cert.
VSC_call(inputs) ==
    /\ hs.pc = "idle"
    /\ Cardinality(held) < MaxHeld
    /\ \E i \in inputs :
          hs' = [HsIdle EXCEPT !.pc = FirstStep, !.end_entity = i.end_entity,
                               !.intermediates = i.intermediates, !.dns_name = i.dns_name,
                               !.scts = i.scts, !.now = i.now]
    /\ last' = NoCall
    /\ UNCHANGED <<wpv, held, clientVars>>

VSC_step(s) ==
    /\ hs.pc = s
    /\ LET o == StepOutcome(s, wpv, hs)
       IN  hs' = [hs EXCEPT
                    !.trace = Append(hs.trace, s),
                    !.taken = hs.taken + o.taken,
                    !.pc = IF o.res # Ok \/ StepAfter(s) = "done" THEN "returned"
                           ELSE StepAfter(s),
                    !.ret = IF o.res # Ok THEN RetErr(o.res)
                            ELSE IF StepAfter(s) = "done" THEN assertion("ServerCertVerified")
                            ELSE hs.ret]
    /\ UNCHANGED <<wpv, last, held, clientVars>>

VSC_prepare == VSC_step("prepare")
VSC_time == VSC_step("time")
VSC_chain == VSC_step("chain")
VSC_scts == VSC_step("scts")
VSC_name == VSC_step("name")

\* What the caller holds after a call returned out: the token, if it is one.
Received(fn, out) ==
    IF out.tag \in TokenKinds THEN held \cup {[kind |-> out.tag, from |-> fn]} ELSE held

\* The call returns to the handshake layer.
VSC_return ==
    /\ hs.pc = "returned"
    /\ held' = Received("verify_server_cert", hs.ret)
    /\ hs' = HsIdle
    /\ UNCHANGED <<wpv, last, clientVars>>

VSC_call_any == VSC_call(ServerInputs)

NextServer ==
    \/ VSC_call_any
    \/ VSC_prepare
    \/ VSC_time
    \/ VSC_chain
    \/ VSC_scts
    \/ VSC_name
    \/ VSC_return

ServerStores == {<<>>, <<1>>, <<1, 2>>}
ServerLogs == {<<>>, <<7>>}

InitServerSpec ==
    /\ InitClient
    /\ InitServer(ServerStores, ServerLogs)

SpecServer == InitServerSpec /\ [][NextServer]_vars

(***************************************************************************)
(* The other verification calls of a handshake, each a whole call, and the *)
(* tokens the caller comes to hold.                                        *)
(***************************************************************************)
SigInput(cert, scheme, msg, sig) == [cert |-> cert, scheme |-> scheme, msg |-> msg, sig |-> sig]

\* ClientCertVerifier::verify_client_cert of the always-require verifier
VerifyClientCert(certs, times) ==
    /\ hs.pc = "idle"
    /\ Cardinality(held) < MaxHeld
    /\ \E c \in certs, ch \in {<<>>}, n \in times :
          LET out == AllowAnyAuthenticatedClient_verify_client_cert(wpv.roots, c, ch, n)
          IN  /\ last' = Called("verify_client_cert", c, ch, n, "ED25519", 0,
                                Signature("ED25519", 0, 0), Checked(out, 0))
              /\ held' = Received("verify_client_cert", out)
    /\ UNCHANGED <<wpv, hs, clientVars>>

\* verify_tls12_signature (the trait's default, for both verifier traits)
VerifyTls12Signature(inputs) ==
    /\ hs.pc = "idle"
    /\ Cardinality(held) < MaxHeld
    /\ \E i \in inputs :
          LET out == verify_signed_struct(i.msg, i.cert, DigitallySignedStruct(i.scheme, i.sig))
          IN  /\ last' = Called("verify_tls12_signature", i.cert, <<>>, TEpoch, i.scheme,
                                i.msg, i.sig, out)
              /\ held' = Received("verify_tls12_signature", out.ret)
    /\ UNCHANGED <<wpv, hs, clientVars>>

\* verify_tls13_signature (the trait's default, for both verifier traits)
VerifyTls13Signature(inputs) ==
    /\ hs.pc = "idle"
    /\ Cardinality(held) < MaxHeld
    /\ \E i \in inputs :
          LET out == verify_tls13(i.msg, i.cert, DigitallySignedStruct(i.scheme, i.sig))
          IN  /\ last' = Called("verify_tls13_signature", i.cert, <<>>, TEpoch, i.scheme,
                                i.msg, i.sig, out)
              /\ held' = Received("verify_tls13_signature", out.ret)
    /\ UNCHANGED <<wpv, hs, clientVars>>

\* A caller outside this module calls a marker type's public constructor.
DirectAssertion ==
    /\ hs.pc = "idle"
    /\ Cardinality(held) < MaxHeld
    /\ \E k \in TokenKinds :
          /\ last' = Called("assertion", CertBadDer, <<>>, TEpoch, "ED25519", 0,
                            Signature("ED25519", 0, 0), Checked(assertion(k), 0))
          /\ held' = Received("assertion", assertion(k))
    /\ UNCHANGED <<wpv, hs, clientVars>>

\* The caller uses up its tokens (a handshake ends).
DropTokens ==
    /\ hs.pc = "idle"
    /\ held # {}
    /\ held' = {}
    /\ last' = NoCall
    /\ UNCHANGED <<wpv, hs, clientVars>>

TokenServerInputs ==
    {ServerInput(ee, <<>>, "a.example", scts, now) :
        ee \in {CertBadDer, CertServerA},
        scts \in {<<>>, <<SctUnknownLog>>}, now \in {TBeforeEpoch, TNow}}

TokenSigInputs ==
    {SigInput(c, sch, 1, Signature(a, 21, m)) :
        c \in {CertBadDer, CertServerA, CertViaInter},
        sch \in {"ECDSA_NISTP256_SHA256", "RSA_PKCS1_SHA1"},
        a \in {"ECDSA_P256_SHA256"}, m \in {1, 2}}

VSC_call_token == VSC_call(TokenServerInputs)
VerifyClientCert_token == VerifyClientCert(ClientCerts, ClientTimes)
VerifyTls12Signature_token == VerifyTls12Signature(TokenSigInputs)
VerifyTls13Signature_token == VerifyTls13Signature(TokenSigInputs)

NextTokens ==
    \/ VSC_call_token
    \/ VSC_prepare
    \/ VSC_time
    \/ VSC_chain
    \/ VSC_scts
    \/ VSC_name
    \/ VSC_return
    \/ VerifyClientCert_token
    \/ VerifyTls12Signature_token
    \/ VerifyTls13Signature_token
    \/ DirectAssertion
    \/ DropTokens

InitTokens ==
    /\ InitClient
    /\ InitServer({<<>>, <<1>>}, {<<>>, <<7>>})

SpecTokens == InitTokens /\ [][NextTokens]_vars

(***************************************************************************)
(* The two signature methods over every scheme of the registry, every key  *)
(* type and signatures made with the matching and with other algorithms.   *)
(***************************************************************************)
SigAlgs ==
    {"ECDSA_P256_SHA256", "ECDSA_P384_SHA256", "ECDSA_P384_SHA384", "ED25519",
     "RSA_PKCS1_2048_8192_SHA256"}

SigCerts == {CertBadDer, CertServerA, CertViaInter, CertUnknown}

\* The signature is made by the certificate's key or by another key.
SigInputs ==
    UNION {{SigInput(c, sch, 1, Signature(a, signer, 1)) :
               sch \in SignatureSchemes, a \in SigAlgs, signer \in {c.subject, 99}} :
           c \in SigCerts}

\* One call at a time: the caller takes the result before it calls again.
VerifyTls12Signature_any == last = NoCall /\ VerifyTls12Signature(SigInputs)
VerifyTls13Signature_any == last = NoCall /\ VerifyTls13Signature(SigInputs)

\* The caller has looked at the result of its last call.
TakeResult ==
    /\ last # NoCall
    /\ last' = NoCall
    /\ UNCHANGED <<wpv, hs, held, clientVars>>

NextSig ==
    \/ VerifyTls12Signature_any
    \/ VerifyTls13Signature_any
    \/ TakeResult
    \/ DropTokens

SpecSig == Init /\ [][NextSig]_vars

(***************************************************************************)
(* verify_scts on its own: every SCT list, every time value, and log sets  *)
(* that are empty, that hold the signing log, and that hold two logs.      *)
(***************************************************************************)
SctInputLists ==
    SctLists \cup {<<SctMalformed>>, <<SctBadSig, SctValid>>, <<SctFuture, SctValid>>,
                   <<SctUnknownLog, SctMalformed, SctValid>>,
                   <<SctOldVersion, SctUnknownLog, SctValid>>}

\* verify_scts is called and returns.
VerifyScts ==
    /\ hs.pc = "idle"
    /\ \E c \in {CertServerA, CertViaInter}, n \in Times, l \in SctInputLists :
          LET out == verify_scts(c, n, l, wpv.ct_logs)
          IN  hs' = [HsIdle EXCEPT !.pc = "returned", !.end_entity = c, !.scts = l,
                                   !.now = n, !.trace = <<"verify_scts">>,
                                   !.taken = out.taken,
                                   !.ret = IF out.res = Ok THEN RetUnit ELSE RetErr(out.res)]
    /\ UNCHANGED <<wpv, last, held, clientVars>>

\* The caller has looked at the result.
VerifyScts_return ==
    /\ hs.pc = "returned"
    /\ hs' = HsIdle
    /\ UNCHANGED <<wpv, last, held, clientVars>>

NextScts ==
    \/ VerifyScts
    \/ VerifyScts_return

InitScts ==
    /\ InitClient
    /\ InitServer({<<>>}, {<<>>, <<7>>, <<8, 7>>})

SpecScts == InitScts /\ [][NextScts]_vars

(***************************************************************************)
(* NoClientAuth: the methods it implements itself and the defaults of the  *)
(* ClientCertVerifier trait that it keeps.                                 *)
(***************************************************************************)
\* Mutant of NoClientAuth_offer_client_auth: client authentication is offered.
NoClientAuth_offers == RetBool(TRUE)

NoClientAuth_offer_client_auth == RetBool(FALSE)

RetSchemes(schemes) == Ret("Schemes", Len(schemes), 0, <<>>, Ok)

ClientCertVerifierMethods ==
    {"offer_client_auth", "client_auth_mandatory", "client_auth_root_subjects",
     "verify_client_cert", "verify_tls12_signature", "verify_tls13_signature",
     "supported_verify_schemes"}

\* What method returns when called on NoClientAuth with the arguments of i.
NoClientAuth(method, i) ==
    CASE method = "offer_client_auth" -> Checked(NoClientAuth_offer_client_auth, 0)
      [] method = "client_auth_mandatory" ->
            Checked(RetSomeBool(NoClientAuth_offer_client_auth = RetBool(TRUE)), 0)
      [] method = "client_auth_root_subjects" -> Checked(RetPanic, 0)
      [] method = "verify_client_cert" -> Checked(RetPanic, 0)
      [] method = "verify_tls12_signature" ->
            verify_signed_struct(i.msg, i.cert, DigitallySignedStruct(i.scheme, i.sig))
      [] method = "verify_tls13_signature" ->
            verify_tls13(i.msg, i.cert, DigitallySignedStruct(i.scheme, i.sig))
      [] method = "supported_verify_schemes" -> Checked(RetSchemes(verification_schemes), 0)

\* A method of NoClientAuth is called and returns (or panics).
NoClientAuth_call ==
    /\ last = NoCall
    /\ \E method \in ClientCertVerifierMethods, i \in SigInputs :
          last' = Called(method, i.cert, <<>>, TNow, i.scheme, i.msg, i.sig,
                         NoClientAuth(method, i))
    /\ UNCHANGED <<wpv, hs, held, clientVars>>

NextNoClientAuth ==
    \/ NoClientAuth_call
    \/ TakeResult

SpecNoClientAuth == Init /\ [][NextNoClientAuth]_vars

(***************************************************************************)
(* Properties of verify_server_cert (under SpecServer).                    *)
(***************************************************************************)
StepOrder == <<"prepare", "time", "chain", "scts", "name">>

Ran(s) == \E i \in 1..Len(hs.trace) : hs.trace[i] = s
RanBefore(a, b) ==
    \E i, j \in 1..Len(hs.trace) : i < j /\ hs.trace[i] = a /\ hs.trace[j] = b

StepPasses(s) == StepOutcome(s, wpv, hs).res = Ok
AllStepsPass == \A i \in 1..Len(StepOrder) : StepPasses(StepOrder[i])

ReturnedToken == hs.pc = "returned" /\ hs.ret = RetToken("ServerCertVerified")

\* C1: verify_server_cert returns the ServerCertVerified token only if, in
\* that call, the end-entity certificate parsed, the time converted, the
\* chain validated against the trust store, the SCTs were accepted and the
\* certificate is valid for the expected name; if any of these fails the call
\* returns an error and no token.
C1_TokenOnlyIfEveryStepSucceeds ==
    hs.pc = "returned" =>
        /\ hs.ret.tag \in {"ServerCertVerified", "Err"}
        /\ hs.ret.tag = "ServerCertVerified" =>
              /\ AllStepsPass
              /\ \A i \in 1..Len(StepOrder) : Ran(StepOrder[i])
        /\ ~AllStepsPass => hs.ret.tag = "Err" /\ hs.ret.err # Ok

C1_Witness ==
    /\ ReturnedToken
    /\ wpv.ct_logs # <<>>
    /\ hs.scts # <<>>
    /\ hs.intermediates # <<>>

\* C3 as stated: in a call that returns the token, chain verification comes
\* before hostname verification, hostname verification before SCT evaluation,
\* and SCT evaluation before the token.
C3_Original_NameBeforeScts ==
    ReturnedToken =>
        /\ RanBefore("chain", "name")
        /\ RanBefore("name", "scts")
        /\ hs.trace[Len(hs.trace)] = "scts"

\* C3 as amended: in a call that returns the token, chain verification comes
\* before SCT evaluation, SCT evaluation before hostname verification, and
\* hostname verification is the last step before the token.
C3_ChainThenSctsThenName ==
    ReturnedToken =>
        /\ RanBefore("chain", "scts")
        /\ RanBefore("scts", "name")
        /\ hs.trace[Len(hs.trace)] = "name"

C3_Witness ==
    /\ ReturnedToken
    /\ hs.end_entity = CertServerA
    /\ hs.scts = <<SctUnknownLog, SctValid>>
    /\ wpv.ct_logs # <<>>

\* The first step, in the order of the code, whose check fails (0: none).
FirstFailing ==
    IF AllStepsPass THEN 0
    ELSE CHOOSE i \in 1..Len(StepOrder) :
            /\ ~StepPasses(StepOrder[i])
            /\ \A j \in 1..(i - 1) : StepPasses(StepOrder[j])

\* C4: the checks run in the order chain validation, SCT evaluation, name
\* validation (after parsing and time conversion); the error returned is that
\* of the first step in this order that fails, and no later step runs after
\* a failure: the SCT error wins over the name error, and no SCT is taken
\* from the iterator when the chain fails.
C4_FirstFailureDecides ==
    /\ \A i \in 1..Len(hs.trace) : i <= Len(StepOrder) /\ hs.trace[i] = StepOrder[i]
    /\ hs.pc = "returned" =>
          IF FirstFailing = 0
          THEN hs.ret = RetToken("ServerCertVerified") /\ hs.trace = StepOrder
          ELSE /\ hs.ret = RetErr(StepOutcome(StepOrder[FirstFailing], wpv, hs).res)
               /\ hs.trace = SubSeq(StepOrder, 1, FirstFailing)
               /\ FirstFailing <= 3 => hs.taken = 0
               /\ FirstFailing = 4 => hs.ret.err.e \in {"InvalidSct", "FailedToGetCurrentTime"}

C4_Witness ==
    /\ hs.pc = "returned"
    /\ FirstFailing = 4
    /\ hs.ret.err.e = "InvalidSct"
    /\ ~StepPasses("name")
    /\ hs.taken = 2

(***************************************************************************)
(* Properties of the proof tokens (under SpecTokens).                      *)
(***************************************************************************)
\* The token each verification function yields.
TokenOf(fn) ==
    CASE fn = "verify_server_cert" -> "ServerCertVerified"
      [] fn = "verify_client_cert" -> "ClientCertVerified"
      [] fn = "verify_tls12_signature" -> "HandshakeSignatureValid"
      [] fn = "verify_tls13_signature" -> "HandshakeSignatureValid"
      [] OTHER -> "none"

VerificationFunctions ==
    {"verify_server_cert", "verify_client_cert", "verify_tls12_signature",
     "verify_tls13_signature"}

\* Whether the call recorded in last had everything it checks in order.
LastCallValid ==
    CASE last.fn = "verify_client_cert" ->
            /\ last.cert.parses
            /\ ~last.now.before_epoch
            /\ verify_is_valid_tls_client_cert(last.cert, wpv.roots, last.chain,
                                               last.now.secs) = "Ok"
      [] last.fn = "verify_tls12_signature" ->
            /\ convert_scheme(last.scheme).res = Ok
            /\ last.cert.parses
            /\ \E i \in 1..Len(convert_scheme(last.scheme).algs) :
                  cert_verify_signature(last.cert, convert_scheme(last.scheme).algs[i],
                                        last.msg, last.sig) = "Ok"
      [] last.fn = "verify_tls13_signature" ->
            /\ convert_alg_tls13(last.scheme).res = Ok
            /\ last.cert.parses
            /\ cert_verify_signature(last.cert, convert_alg_tls13(last.scheme).algs[1],
                                     last.msg, last.sig) = "Ok"
      [] OTHER -> TRUE

\* C2 as stated: every token the caller holds is the result of a successful
\* call of the verification function of its kind; no other operation yields
\* a token.
C2_Original_OnlyFromVerification ==
    \A h \in held : h.from \in VerificationFunctions /\ TokenOf(h.from) = h.kind

\* C2 as amended: every token comes from its type's assertion() constructor,
\* called either by the verification function of its kind on its success
\* path, or directly by a caller, for whom assertion() is public; a
\* verification function returns a token only when all it checks succeeded.
C2_FromVerificationOrAssertion ==
    /\ \A h \in held :
          \/ h.from = "assertion"
          \/ h.from \in VerificationFunctions /\ TokenOf(h.from) = h.kind
    /\ last.fn \in VerificationFunctions /\ last.ret.tag \in TokenKinds =>
          /\ last.ret.tag = TokenOf(last.fn)
          /\ LastCallValid
          /\ [kind |-> last.ret.tag, from |-> last.fn] \in held
    /\ last.fn \in VerificationFunctions /\ last.ret.tag \notin TokenKinds =>
          last.ret.tag = "Err"
    /\ ReturnedToken => AllStepsPass

C2_Witness ==
    /\ [kind |-> "FinishedMessageVerified", from |-> "assertion"] \in held
    /\ [kind |-> "HandshakeSignatureValid", from |-> "verify_tls13_signature"] \in held
    /\ last.fn = "verify_tls13_signature"

(***************************************************************************)
(* SafeDefaultClientVerifier with fair scheduling: a thread that can take  *)
(* a step eventually takes it (the threads are scheduled by the operating  *)
(* system, and the lock hands the guard to parked threads in order).       *)
(***************************************************************************)
FairCalls ==
    {<<"verify_client_cert", Arg(Malformed, <<>>, CertClientA, TNow)>>,
     <<"serve_anonymous_clients", NoArg>>}

CallFair(t) == CallFrom(t, FairCalls)

\* Thread 1 runs every operation; threads 2 and 3 are handshakes that verify
\* and an administrator that switches to anonymous mode.
NextFair ==
    \/ CallConc(1)
    \/ \E t \in {2, 3} : CallFair(t)
    \/ \E t \in Threads : ThreadStep(t)

SpecFair == Init /\ [][NextFair]_vars /\ \A t \in Threads : WF_vars(ThreadStep(t))

(***************************************************************************)
(* Properties of the lock (under SpecConc and SpecFair).                   *)
(***************************************************************************)
ClaimedReadOps ==
    {"offer_client_auth", "client_auth_mandatory", "client_auth_root_subjects",
     "verify_client_cert", "is_cert_store_empty", "root_cert_store_len",
     "root_cert_store_subjects"}

ClaimedWriteOps ==
    {"serve_anonymous_clients", "serve_only_authenticated_clients", "add_trusted_root_ca",
     "add_server_trust_anchors", "batch_add_certificates", "reset_root_cert_store"}

InOperation(t) == pc[t] \in {"locked", "verifying", "done"}
HoldsGuard(t) == t \in lockReaders \/ lockWriter = t

\* A writer that is next in line and cannot have the lock.
BlockedWriter(w) ==
    /\ pc[w] = "wait"
    /\ LockKind(op[w]) = "write"
    /\ Head(lockQueue) = w

\* C5: the lock on the mode is never held while the chain is verified:
\* verify_client_cert has released its read guard when the chain verification
\* runs, so no writer is kept waiting by a chain verification.
C5_NoGuardWhileVerifying ==
    \A t \in Threads :
        pc[t] = "verifying" =>
            /\ ~HoldsGuard(t)
            /\ \A w \in Threads : ~BlockedWriter(w)

\* C6: the verification and query operations hold the lock in read mode, and
\* any number of them hold it at once; the mode switches and trust-anchor
\* mutations hold it in write mode, and while one of them holds it no other
\* operation holds it.
C6_ReadersShareWritersExclude ==
    \A t \in Threads :
        /\ op[t] \in ClaimedReadOps \cup ClaimedWriteOps \cup {"none"}
        /\ InOperation(t) /\ op[t] \in ClaimedReadOps =>
              t \in lockReaders /\ lockWriter = 0
        /\ InOperation(t) /\ op[t] \in ClaimedWriteOps =>
              /\ lockWriter = t
              /\ lockReaders = {}
              /\ \A u \in Threads \ {t} : ~InOperation(u) /\ ~HoldsGuard(u)
        /\ ~InOperation(t) => ~HoldsGuard(t)

C6_Witness ==
    /\ lockReaders = Threads
    /\ \E t \in Threads : pc[t] = "verifying"
    /\ \E t \in Threads : pc[t] = "done" /\ op[t] = "root_cert_store_subjects"

\* C7: under fair scheduling every invoked operation acquires the lock,
\* completes and releases it: a thread that asked for the lock is later idle
\* again, whatever the other threads do.
C7_EveryOperationCompletes ==
    \A t \in Threads : (pc[t] = "wait") ~> (pc[t] = "idle")

C7_Witness ==
    /\ Len(lockQueue) = 2
    /\ LockKind(op[lockQueue[1]]) = "write"
    /\ LockKind(op[lockQueue[2]]) = "read"
    /\ \E t \in Threads : pc[t] = "verifying"

Returned(t, o) == pc[t] = "done" /\ op[t] = o

\* What operation o with arguments a does when it runs alone on mode m:
\* the mode it leaves and the value it returns.
Sequential(o, m, a) ==
    CASE o = "serve_anonymous_clients" -> serve_anonymous_clients(m)
      [] o = "serve_only_authenticated_clients" -> serve_only_authenticated_clients(m)
      [] o = "add_trusted_root_ca" -> add_trusted_root_ca(m, a.der)
      [] o = "add_server_trust_anchors" -> add_server_trust_anchors(m, a.list)
      [] o = "batch_add_certificates" -> batch_add_certificates(m, a.list)
      [] o = "reset_root_cert_store" -> reset_root_cert_store(m)
      [] o = "is_cert_store_empty" -> Effect(m, is_cert_store_empty(m))
      [] o = "root_cert_store_len" -> Effect(m, root_cert_store_len(m))
      [] o = "root_cert_store_subjects" -> Effect(m, root_cert_store_subjects(m))
      [] o = "offer_client_auth" -> Effect(m, offer_client_auth(m))
      [] o = "client_auth_mandatory" -> Effect(m, client_auth_mandatory(m))
      [] o = "client_auth_root_subjects" -> Effect(m, client_auth_root_subjects(m))
      [] o = "verify_client_cert" ->
            Effect(m, verify_client_cert(m, a.cert, a.list, a.now))

\* C26: every operation acquires the lock once and does its whole read or
\* read-modify-write under that acquisition, so it takes effect atomically:
\* when an operation has finished its body it still holds the one guard it
\* acquired, the value it returns and the mode it leaves are those of the
\* operation run alone on the mode it found, and no other thread has changed
\* the mode in between; in particular serve_only_authenticated_clients
\* leaves a store it found in must-verify mode as it is.
C26_OperationsTakeEffectAtomically ==
    \A t \in Threads :
        /\ ~AcquiresWhileHolding(op[t])
        /\ pc[t] \in {"locked", "verifying", "done"} =>
              IF LockKind(op[t]) = "write" THEN lockWriter = t ELSE t \in lockReaders
        /\ pc[t] = "verifying" => mode = before[t]
        /\ pc[t] = "done" =>
              /\ mode = Sequential(op[t], before[t], arg[t]).mode
              /\ ret[t] = Sequential(op[t], before[t], arg[t]).ret
        /\ (Returned(t, "serve_only_authenticated_clients")
              /\ before[t].tag = "MustVerifyClientCert") => mode.roots = before[t].roots

C26_Witness ==
    \E t, u \in Threads :
        /\ Returned(t, "serve_only_authenticated_clients")
        /\ before[t].tag = "MustVerifyClientCert"
        /\ Len(mode.roots) > 0
        /\ pc[u] = "wait" /\ op[u] = "serve_anonymous_clients"

(***************************************************************************)
(* Properties of the mode and the store (under Spec).                      *)
(***************************************************************************)
\* C8: a newly created SafeDefaultClientVerifier is in must-verify mode with
\* an empty store: until the first mode switch or store mutation,
\* is_cert_store_empty() is true, root_cert_store_len() is 0,
\* offer_client_auth() is true and client_auth_mandatory() is Some(true).
C8_NewIsMustVerifyEmpty ==
    ~mutated =>
        /\ mode = MustVerifyClientCert(<<>>)
        /\ \A t \in Threads :
              /\ Returned(t, "is_cert_store_empty") => ret[t] = RetBool(TRUE)
              /\ Returned(t, "root_cert_store_len") => ret[t] = RetUsize(0)
              /\ Returned(t, "offer_client_auth") => ret[t] = RetBool(TRUE)
              /\ Returned(t, "client_auth_mandatory") => ret[t] = RetSomeBool(TRUE)

C8_Witness ==
    /\ ~mutated
    /\ \E t \in Threads : Returned(t, "client_auth_mandatory") /\ ret[t] = RetSomeBool(TRUE)
    /\ \E t \in Threads : Returned(t, "root_cert_store_len") /\ ret[t] = RetUsize(0)

\* An operation that found the verifier in anonymous mode.
FoundAnonymous(t) == pc[t] = "done" /\ before[t].tag = "AllowAnyClient"

\* C9: serve_anonymous_clients() leaves the mode anonymous from any state,
\* and every operation that finds it anonymous, other than
\* serve_only_authenticated_clients(), leaves it anonymous: offer_client_auth
\* is false, add_trusted_root_ca and batch_add_certificates return None,
\* add_server_trust_anchors and reset_root_cert_store return false.
C9_AnonymousRejectsMutations ==
    \A t \in Threads :
        /\ Returned(t, "serve_anonymous_clients") => mode = AllowAnyClient
        /\ FoundAnonymous(t) =>
              /\ op[t] = "offer_client_auth" => ret[t] = RetBool(FALSE)
              /\ op[t] = "add_trusted_root_ca" => ret[t] = RetNone
              /\ op[t] = "add_server_trust_anchors" => ret[t] = RetBool(FALSE)
              /\ op[t] = "batch_add_certificates" => ret[t] = RetNone
              /\ op[t] = "reset_root_cert_store" => ret[t] = RetBool(FALSE)
              /\ op[t] # "serve_only_authenticated_clients" => mode = AllowAnyClient

C9_Witness ==
    /\ excursion > 0
    /\ \E t \in Threads :
          /\ FoundAnonymous(t)
          /\ op[t] = "batch_add_certificates"
          /\ arg[t].list = <<1, Malformed>>
          /\ ret[t] = RetNone
          /\ mode = AllowAnyClient

\* serve_only_authenticated_clients() has just run on an anonymous verifier.
BackFromAnonymous(t) == Returned(t, "serve_only_authenticated_clients") /\ FoundAnonymous(t)

\* C10: trust anchors do not survive a round trip through anonymous mode:
\* whatever the number of anchors held when serve_anonymous_clients() ran,
\* the serve_only_authenticated_clients() that ends the anonymous period
\* leaves must-verify mode with an empty store (is_cert_store_empty() true,
\* root_cert_store_len() 0).
C10_AnchorsDoNotSurviveRoundTrip ==
    \A t \in Threads :
        BackFromAnonymous(t) =>
            /\ excursion \in 0..MaxRoots
            /\ mode = MustVerifyClientCert(<<>>)
            /\ is_cert_store_empty(mode) = RetBool(TRUE)
            /\ root_cert_store_len(mode) = RetUsize(0)

C10_Witness ==
    /\ excursion > 1
    /\ \E t \in Threads : BackFromAnonymous(t) /\ root_cert_store_len(mode) = RetUsize(0)

\* An operation that found the verifier in must-verify mode.
FoundMustVerify(t) == pc[t] = "done" /\ before[t].tag = "MustVerifyClientCert"

\* C11: serve_only_authenticated_clients() on a verifier that is already in
\* must-verify mode with N anchors leaves the mode and the same N anchors in
\* place, for every N and at every call.
C11_ServeOnlyKeepsAnchors ==
    \A t \in Threads :
        Returned(t, "serve_only_authenticated_clients") /\ FoundMustVerify(t) =>
            /\ mode = before[t]
            /\ mode.tag = "MustVerifyClientCert"
            /\ root_cert_store_len(mode) = RetUsize(Len(before[t].roots))

C11_Witness ==
    \E t \in Threads :
        /\ Returned(t, "serve_only_authenticated_clients")
        /\ FoundMustVerify(t)
        /\ Len(before[t].roots) > 1
        /\ mode = before[t]

\* C12: offer_client_auth and client_auth_mandatory reflect the mode they
\* read: true and Some(true) in must-verify mode, false and Some(false) in
\* anonymous mode; client_auth_mandatory never returns None.
C12_AuthQueriesReflectMode ==
    \A t \in Threads :
        /\ Returned(t, "offer_client_auth") =>
              /\ mode = before[t]
              /\ ret[t] = RetBool(mode.tag = "MustVerifyClientCert")
        /\ Returned(t, "client_auth_mandatory") =>
              /\ mode = before[t]
              /\ ret[t] = RetSomeBool(mode.tag = "MustVerifyClientCert")
              /\ ret[t] # RetNone

C12_Witness ==
    /\ mode.tag = "AllowAnyClient"
    /\ \E t \in Threads : Returned(t, "offer_client_auth") /\ ret[t] = RetBool(FALSE)
    /\ \E t \in Threads : Returned(t, "client_auth_mandatory") /\ ret[t] = RetSomeBool(FALSE)

\* C13: verify_client_cert and client_auth_root_subjects panic exactly when
\* the mode they read is anonymous; in must-verify mode they return what the
\* always-require verifier returns for the store of the mode: the result of
\* the chain verification, and Some(subjects of the store).
C13_PanicIffAnonymous ==
    \A t \in Threads :
        /\ Returned(t, "verify_client_cert") =>
              /\ mode = before[t]
              /\ ret[t] = RetPanic <=> mode.tag = "AllowAnyClient"
              /\ mode.tag = "MustVerifyClientCert" =>
                    ret[t] = AllowAnyAuthenticatedClient_verify_client_cert(
                                 mode.roots, arg[t].cert, arg[t].list, arg[t].now)
        /\ Returned(t, "client_auth_root_subjects") =>
              /\ mode = before[t]
              /\ ret[t] = RetPanic <=> mode.tag = "AllowAnyClient"
              /\ mode.tag = "MustVerifyClientCert" =>
                    ret[t] = RetSomeNames(RootCertStore_subjects(mode.roots))

C13_Witness ==
    /\ \E t \in Threads :
          /\ Returned(t, "verify_client_cert")
          /\ ret[t] = RetToken("ClientCertVerified")
          /\ Len(mode.roots) > 0
    /\ \E t \in Threads :
          /\ Returned(t, "client_auth_root_subjects")
          /\ ret[t] = RetSomeNames(RootCertStore_subjects(mode.roots))

\* C14: is_cert_store_empty, root_cert_store_len and root_cert_store_subjects
\* leave the mode and the store as they found them; while anonymous they
\* return true, 0 and None, and in must-verify mode the store's emptiness,
\* its size and Some(its subjects).
C14_QueriesReadOnly ==
    \A t \in Threads :
        LET anonymous == mode.tag = "AllowAnyClient"
        IN  /\ Returned(t, "is_cert_store_empty") =>
                  /\ mode = before[t]
                  /\ ret[t] = RetBool(anonymous \/ Len(mode.roots) = 0)
            /\ Returned(t, "root_cert_store_len") =>
                  /\ mode = before[t]
                  /\ ret[t] = RetUsize(IF anonymous THEN 0 ELSE Len(mode.roots))
            /\ Returned(t, "root_cert_store_subjects") =>
                  /\ mode = before[t]
                  /\ ret[t] = IF anonymous THEN RetNone
                              ELSE RetSomeNames(RootCertStore_subjects(mode.roots))

C14_Witness ==
    /\ Len(mode.roots) > 1
    /\ \E t \in Threads : Returned(t, "root_cert_store_len") /\ ret[t] = RetUsize(Len(mode.roots))
    /\ \E t \in Threads :
          /\ Returned(t, "root_cert_store_subjects")
          /\ ret[t] = RetSomeNames(RootCertStore_subjects(mode.roots))

(***************************************************************************)
(* Properties of the signature methods (under SpecSig).                    *)
(***************************************************************************)
Tls12Call == last.fn = "verify_tls12_signature"
Tls13Call == last.fn = "verify_tls13_signature"
SignatureValid == last.ret = RetToken("HandshakeSignatureValid")
PeerMisbehaved == last.ret = RetErr(PeerMisbehavedError)

\* The curve variants TLS 1.2 binds to an ECDSA scheme, in candidate order.
CurveVariants(scheme) ==
    IF scheme = "ECDSA_NISTP256_SHA256" THEN <<"ECDSA_P256_SHA256", "ECDSA_P384_SHA256">>
    ELSE <<"ECDSA_P256_SHA384", "ECDSA_P384_SHA384">>

EcdsaSchemes == {"ECDSA_NISTP256_SHA256", "ECDSA_NISTP384_SHA384"}

\* The signature of the last call is valid under algorithm a for its certificate.
ValidUnder(a) == cert_verify_signature(last.cert, a, last.msg, last.sig) = "Ok"

AcceptedByVariant ==
    \E i \in 1..Len(CurveVariants(last.scheme)) : ValidUnder(CurveVariants(last.scheme)[i])

\* The candidates that apply to the key of the certificate of the last call.
Applicable == {i \in 1..Len(CurveVariants(last.scheme)) :
                  KeyOf(CurveVariants(last.scheme)[i]) = last.cert.key}

EcdsaTls12Call == Tls12Call /\ last.scheme \in EcdsaSchemes /\ last.cert.parses

C16_Tls13OneAlgorithm ==
    Tls13Call =>
        /\ last.tried <= 1
        /\ Len(convert_alg_tls13(last.scheme).algs) <= 1
        /\ SignatureValid =>
              /\ last.tried = 1
              /\ ValidUnder(convert_alg_tls13(last.scheme).algs[1])
              /\ last.sig.alg = convert_alg_tls13(last.scheme).algs[1]
        /\ (last.cert.parses /\ convert_alg_tls13(last.scheme).res = Ok) =>
              (SignatureValid <=> ValidUnder(convert_alg_tls13(last.scheme).algs[1]))

\* The other curve with the same hash: TLS 1.2 accepts it, TLS 1.3 does not.
C16_Witness ==
    /\ Tls13Call
    /\ last.cert = CertViaInter
    /\ last.scheme = "ECDSA_NISTP256_SHA256"
    /\ last.sig = Signature("ECDSA_P384_SHA256", 22, 1)
    /\ last.ret.tag = "Err"
    /\ last.tried = 1
    /\ verify_signed_struct(last.msg, last.cert,
                            DigitallySignedStruct(last.scheme, last.sig)).ret
          = RetToken("HandshakeSignatureValid")

\* The schemes each method resolves.
Tls13Schemes ==
    {"ECDSA_NISTP256_SHA256", "ECDSA_NISTP384_SHA384", "ED25519",
     "RSA_PSS_SHA256", "RSA_PSS_SHA384", "RSA_PSS_SHA512"}

Tls12Schemes == Tls13Schemes \cup {"RSA_PKCS1_SHA256", "RSA_PKCS1_SHA384", "RSA_PKCS1_SHA512"}

\* C17: in both signature methods a scheme that the method's resolver does
\* not resolve yields the peer-misbehaved error; no signature check is made,
\* no token is returned, and the error comes before that of a certificate
\* that does not parse.
C17_UnresolvedSchemeIsPeerMisbehaved ==
    /\ Tls12Call /\ last.scheme \notin Tls12Schemes =>
          PeerMisbehaved /\ last.tried = 0 /\ ~SignatureValid
    /\ Tls13Call /\ last.scheme \notin Tls13Schemes =>
          PeerMisbehaved /\ last.tried = 0 /\ ~SignatureValid

C17_Witness ==
    /\ Tls12Call
    /\ last.cert = CertBadDer
    /\ last.scheme = "ECDSA_NISTP521_SHA512"
    /\ PeerMisbehaved

Advertised == {supported_verify_schemes[i] : i \in 1..Len(supported_verify_schemes)}

SctsReturned == hs.pc = "returned" /\ hs.trace = <<"verify_scts">>

\* C19: with an empty set of trusted logs verify_scts succeeds for every
\* input: whatever the SCTs and whatever the time, also a time that does not
\* convert, it returns Ok and takes no SCT from the iterator.
C19_NoLogsAlwaysOk ==
    SctsReturned /\ wpv.ct_logs = <<>> =>
        /\ hs.ret = RetUnit
        /\ hs.taken = 0

C19_Witness ==
    /\ SctsReturned
    /\ wpv.ct_logs = <<>>
    /\ hs.scts = <<SctMalformed, SctValid>>
    /\ hs.now = TOverflow
    /\ unix_time_millis(hs.now).res = FailedToGetCurrentTime
    /\ hs.ret = RetUnit

\* What sct::verify_sct says of the i-th SCT of the call.
Verdict(i) ==
    sct_verify_sct(hs.end_entity, hs.scts[i], unix_time_millis(hs.now).millis, wpv.ct_logs)

\* The SCTs that are valid or fail with a fatal error.
Deciding == {i \in 1..Len(hs.scts) :
                Verdict(i) \notin {"UnknownLog", "UnsupportedSCTVersion"}}

FirstDeciding == CHOOSE i \in Deciding : \A j \in Deciding : i <= j

\* C20: with a non-empty log set verify_scts goes through the SCTs in order
\* and stops at the first that is valid or fails with a fatal error: a valid
\* one gives Ok whatever soft errors came before, a fatal one gives its error
\* even when valid SCTs follow, and no SCT after it is taken.
C20_FirstValidOrFatalDecides ==
    (/\ SctsReturned
     /\ wpv.ct_logs # <<>>
     /\ unix_time_millis(hs.now).res = Ok
     /\ Deciding # {}) =>
        /\ hs.taken = FirstDeciding
        /\ hs.ret = IF Verdict(FirstDeciding) = "Ok" THEN RetUnit
                    ELSE RetErr(InvalidSct(Verdict(FirstDeciding)))

C20_Witness ==
    /\ SctsReturned
    /\ wpv.ct_logs = <<8, 7>>
    /\ hs.scts = <<SctOldVersion, SctBadSig, SctValid>>
    /\ hs.now = TNow
    /\ hs.taken = 2
    /\ hs.ret = RetErr(InvalidSct("InvalidSignature"))

\* C21: with a non-empty log set, when the SCTs run out without a valid or a
\* fatal one: if at least one SCT was presented the call fails with the soft
\* error of the last SCT, and all SCTs were taken; if none was presented it
\* succeeds.
C21_ExhaustedFailsWithLastSoftError ==
    (/\ SctsReturned
     /\ wpv.ct_logs # <<>>
     /\ unix_time_millis(hs.now).res = Ok
     /\ Deciding = {}) =>
        /\ hs.taken = Len(hs.scts)
        /\ hs.ret = IF hs.scts = <<>> THEN RetUnit
                    ELSE RetErr(InvalidSct(Verdict(Len(hs.scts))))

C21_Witness ==
    /\ SctsReturned
    /\ wpv.ct_logs = <<7>>
    /\ hs.scts = <<SctUnknownLog, SctOldVersion>>
    /\ hs.now = TNow
    /\ hs.taken = 2
    /\ hs.ret = RetErr(InvalidSct("UnsupportedSCTVersion"))

\* A time that has no count of milliseconds since the epoch in 64 bits: it
\* lies before the epoch, or its seconds exceed floor(u64::MAX / 1000).
Unconvertible(now) ==
    now.before_epoch \/ ~LimbLeq(now.secs, Limbs(0, 18446, 744073, 709551))

\* C24: with a non-empty log set, a time that cannot be converted to
\* milliseconds since the epoch makes verify_scts fail with
\* FailedToGetCurrentTime, before any SCT is taken; a time that can be
\* converted never gives that error.
C24_UnconvertibleTimeFails ==
    SctsReturned /\ wpv.ct_logs # <<>> =>
        IF Unconvertible(hs.now)
        THEN hs.ret = RetErr(FailedToGetCurrentTime) /\ hs.taken = 0
        ELSE hs.ret # RetErr(FailedToGetCurrentTime)

C24_Witness ==
    /\ SctsReturned
    /\ wpv.ct_logs = <<7>>
    /\ hs.now = TOverflow
    /\ hs.scts = <<SctValid>>
    /\ hs.ret = RetErr(FailedToGetCurrentTime)
    /\ hs.taken = 0

\* The candidates TLS 1.2 resolves the scheme of the last call to, and what
\* the check of the i-th of them reports.
Candidates == convert_scheme(last.scheme).algs
Outcome(i) == cert_verify_signature(last.cert, Candidates[i], last.msg, last.sig)
NotSkipped == {i \in 1..Len(Candidates) :
                  Outcome(i) # "UnsupportedSignatureAlgorithmForPublicKey"}
FirstNotSkipped == CHOOSE i \in NotSkipped : \A j \in NotSkipped : i <= j

\* C23: TLS-1.2 verification tries the candidates of the resolved set in
\* order; a candidate that reports the algorithm unsupported for the public
\* key is skipped; the first candidate with any other outcome decides the
\* result and no later one is tried; when every candidate is skipped the
\* result is the unsupported-algorithm failure as a signature-verification
\* error.
C23_FirstNotSkippedCandidateDecides ==
    (Tls12Call /\ convert_scheme(last.scheme).res = Ok /\ last.cert.parses) =>
        IF NotSkipped = {}
        THEN /\ last.tried = Len(Candidates)
             /\ last.ret = RetErr(WebPkiError("UnsupportedSignatureAlgorithmForPublicKey",
                                              "VerifySignature"))
        ELSE /\ last.tried = FirstNotSkipped
             /\ last.ret = IF Outcome(FirstNotSkipped) = "Ok"
                           THEN RetToken("HandshakeSignatureValid")
                           ELSE RetErr(WebPkiError(Outcome(FirstNotSkipped),
                                                   "VerifySignature"))

C23_Witness ==
    /\ Tls12Call
    /\ last.scheme = "ECDSA_NISTP384_SHA384"
    /\ last.cert.parses
    /\ last.cert.key = "P384"
    /\ Len(Candidates) = 2
    /\ last.tried = 2
    /\ last.ret = RetErr(WebPkiError("InvalidSignatureForPublicKey", "VerifySignature"))

(***************************************************************************)
(* Properties of NoClientAuth (under SpecNoClientAuth).                    *)
(***************************************************************************)
NoClientAuthCalled == last.fn \in ClientCertVerifierMethods

\* C22 as stated: on NoClientAuth offer_client_auth() returns false and every
\* other method of the trait panics when called.
C22_Original_EveryOtherMethodPanics ==
    NoClientAuthCalled =>
        IF last.fn = "offer_client_auth" THEN last.ret = RetBool(FALSE)
        ELSE last.ret = RetPanic

\* C22 as amended: on NoClientAuth offer_client_auth() returns false,
\* client_auth_root_subjects and verify_client_cert panic, and the other
\* methods are the defaults of the trait and return: client_auth_mandatory
\* gives Some(false), the two signature methods check the signature, and
\* supported_verify_schemes gives the list of schemes.
C22_OnlyImplementedMethodsPanic ==
    NoClientAuthCalled =>
        /\ last.fn = "offer_client_auth" => last.ret = RetBool(FALSE)
        /\ last.fn \in {"client_auth_root_subjects", "verify_client_cert"} =>
              last.ret = RetPanic
        /\ last.fn = "client_auth_mandatory" => last.ret = RetSomeBool(FALSE)
        /\ last.fn = "supported_verify_schemes" =>
              last.ret = RetSchemes(supported_verify_schemes)
        /\ last.fn \in {"verify_tls12_signature", "verify_tls13_signature"} =>
              /\ last.ret # RetPanic
              /\ last.ret.tag \in {"HandshakeSignatureValid", "Err"}
              /\ (last.cert.parses /\ last.scheme = "ED25519") =>
                    (SignatureValid <=> ValidUnder("ED25519"))

C22_Witness ==
    /\ last.fn = "verify_tls12_signature"
    /\ last.cert = CertUnknown
    /\ last.scheme = "ED25519"
    /\ SignatureValid

(***************************************************************************)
(* Properties of a handshake racing with mode switches (under SpecRace).   *)
(***************************************************************************)
\* C25: under any interleaving of a handshake with threads that switch the
\* mode, a handshake that observed offer_client_auth() = true and afterwards
\* calls client_auth_root_subjects or verify_client_cert never reaches the
\* panic branch of those methods.
C25_ObservedOfferNeverPanics ==
    \A t \in Threads :
        (offered[t] /\ (Returned(t, "client_auth_root_subjects")
                           \/ Returned(t, "verify_client_cert"))) =>
            ret[t] # RetPanic

====
